---- MODULE Spec2Model ----
(***************************************************************************)
(* State-machine model of pyppeteer's Page (src/pyppeteer/page.py): the    *)
(* navigation operations, the full-page screenshot, and the function       *)
(* exposure bridge with the console handler.                               *)
(*                                                                         *)
(* Every coroutine is cut at its awaits: the reply of the session (or the  *)
(* completion of the watcher) is one step of the environment, and the      *)
(* resumption of the coroutine is a later step, so that events of the      *)
(* browser can fall between the two, as they can on the asyncio loop.      *)
(***************************************************************************)
EXTENDS Integers, Sequences, FiniteSets, TLC

VARIABLES
    frameUrl,   \* url of the main frame, or NoFrame
    reqs,       \* the requests the network manager has reported, in order
    nav,        \* the navigation call in progress
    nav2,       \* a second navigation call, made while the first is pending
    viewport,   \* Page._viewport
    metrics,    \* the device metrics the browser emulates
    background, \* the default background colour override of the browser
    shot,       \* the screenshot call in progress
    pageBindings, \* Page._pageBindings: name -> callable
    expose,     \* the exposeFunction call in progress
    scripts,    \* names whose bootstrap the browser evaluates on new documents
    ctx,        \* id of the main frame's current execution context
    stub,       \* window[name] of the current context, for every name
    calls,      \* the calls of stubs made by page script, in order
    console,    \* Runtime.consoleAPICalled events on their way to the page
    made,       \* number of console calls page script has made itself
    deliveries, \* Runtime.evaluate commands of deliverResult on their way
    fulfilled,  \* the pending completions that deliveries have fulfilled
    listeners,  \* number of listeners of Page.Events.Console
    last,       \* what the last run of _onConsoleAPI did
    cookieCall, \* the setCookie call in progress
    cookieLog,  \* the cookie commands the session was sent, in order
    ignoreHTTPSErrors, \* Page._ignoreHTTPSErrors
    certCmds,   \* the Security.handleCertificateError commands dispatched
    certLast,   \* what the last run of _onCertificateError did
    sample,     \* what the last run of _emitMetrics did
    closeCall,  \* the close call in progress
    subs,       \* the subscriptions of the page that are registered
    reemitted   \* the events of the session and the sub-components it handled

navVars == <<frameUrl, reqs, nav, nav2>>

shotVars == <<viewport, metrics, background, shot>>

bridgeVars ==
    <<pageBindings, expose, scripts, ctx, stub, calls, console, made,
      deliveries, fulfilled, listeners, last>>

teardownVars == <<closeCall, subs, reemitted>>

surfaceVars ==
    <<cookieCall, cookieLog, ignoreHTTPSErrors, certCmds, certLast, sample,
      teardownVars>>

vars ==
    <<frameUrl, reqs, nav, nav2, viewport, metrics, background, shot,
      pageBindings, expose, scripts, ctx, stub, calls, console, made,
      deliveries, fulfilled, listeners, last,
      cookieCall, cookieLog, ignoreHTTPSErrors, certCmds, certLast, sample,
      closeCall, subs, reemitted>>

(***************************************************************************)
(* Bounds of the model.                                                    *)
(***************************************************************************)
\* Number of network requests the browser starts in one behaviour.
MaxReq == 2
\* Number of network requests in the behaviours checked for progress.
MaxFairReq == 1
\* Largest number of entries of a navigation history reply.
MaxHist == 2
\* Largest width and height of the page content, as Page.getLayoutMetrics
\* reports them.
MaxContent == 2
\* Number of documents (execution contexts) the main frame goes through.
MaxCtx == 2
\* Number of calls page script makes of the stubs.
MaxCalls == 2
\* Number of console calls page script makes, and the largest number of
\* arguments of one.
MaxConsole == 1
MaxArgs == 2
\* Largest number of listeners of the console event.
MaxListeners == 1
\* Number of events the session and the sub-components raise around close.
MaxEvents == 2
\* Largest number of cookies of one setCookie call.
MaxCookies == 2
\* Number of certificate errors the browser reports.
MaxCertEvents == 2
\* Number of performance samples the browser reports, and the largest
\* number of raw metrics of one.
MaxSamples == 1
MaxMetrics == 2

Urls == {"u1", "u2"}

\* FrameManager.mainFrame is None.
NoFrame == "noframe"

(***************************************************************************)
(* Navigation: goto, reload, goBack, goForward, waitForNavigation.         *)
(***************************************************************************)
NavOps == {"goto", "reload", "goBack", "goForward", "waitForNavigation"}

\* Replies of Page.getNavigationHistory: n >= 1 entries (ids 0..n-1) and the
\* current index, an index of the entries. (With such a reply
\* currentIndex + delta <= n, so the test len(entries) < _count of _go is
\* never true.)
Histories == {h \in [n : 1..MaxHist, cur : 0..MaxHist] : h.cur < h.n}

EmptyMap == [u \in Urls |-> 0]

\* The state of the controller when no navigation call has been made.
NavIdle ==
    [op |-> "none", pc |-> "idle", delta |-> 0,
     cmd |-> "none", cmdName |-> "none", entry |-> 0 - 1,
     watcher |-> "none", cancelled |-> FALSE,
     wfn |-> "none", wfnVal |-> 0, wfnErr |-> "none", gather |-> "none",
     requests |-> EmptyMap, responses |-> EmptyMap,
     reqL |-> FALSE, respL |-> FALSE, armedAt |-> 0,
     hist |-> [n |-> 0, cur |-> 0], sent |-> <<>>,
     returned |-> FALSE, retVal |-> 0, raised |-> "none"]

\* A map that keeps the first value written under a key.
SetItem_KeepFirst(map, u, x) == IF map[u] = 0 THEN [map EXCEPT ![u] = x] ELSE map

\* dict.__setitem__(url, x) of the listeners' lambdas: the last write wins.
SetItem(map, u, x) == [map EXCEPT ![u] = x]

\* entries[i] of a Python list of n entries: a negative index counts from
\* the end, an index outside -n..n-1 raises IndexError.
PyIndex(n, i) ==
    IF 0 <= i /\ i < n THEN [ok |-> TRUE, idx |-> i]
    ELSE IF i < 0 /\ 0 - n <= i THEN [ok |-> TRUE, idx |-> n + i]
    ELSE [ok |-> FALSE, idx |-> 0 - 1]

\* `return x`: the call settles with a value (0 is None, r the response of
\* request r).
Return(s, v) == [s EXCEPT !.pc = "done", !.returned = TRUE, !.retVal = v]

\* `raise e`: the call settles with an error.
Raise(s, e) == [s EXCEPT !.pc = "done", !.raised = e]

\* request.response of the request r found in a map (None when no request
\* was found, or when the request has no response yet).
ResponseOf(r) == IF r # 0 /\ reqs[r].resp THEN r ELSE 0

\* A _navigate that does not look at the reply's error text.
NavigateResult_IgnoreErrorText(reply) ==
    IF reply = "failed" THEN "raise" ELSE "None"

\* _navigate: the reply of Page.navigate as goto sees it. "raise" when
\* send raised, the error text when the reply carries one, "None" otherwise.
NavigateResult(reply) ==
    CASE reply = "failed" -> "raise"
      [] reply = "errorText" -> "errorText"
      [] OTHER -> "None"

-----------------------------------------------------------------------------
\* goto up to its first suspension, the await of Page.navigate.
GotoStart ==
    /\ nav.op = "none"
    /\ LET s == [nav EXCEPT !.op = "goto", !.requests = EmptyMap,
                            !.reqL = TRUE, !.armedAt = Len(reqs)]
       IN  IF frameUrl = NoFrame
           THEN nav' = Raise(s, "NoMainFrame")
           ELSE nav' = [s EXCEPT !.watcher = "pending", !.pc = "navigate",
                                 !.cmd = "sent", !.cmdName = "Page.navigate",
                                 !.sent = Append(s.sent, "Page.navigate")]
    /\ UNCHANGED <<frameUrl, reqs, nav2>> /\ UNCHANGED <<shotVars, surfaceVars, bridgeVars>>

\* The session answers Page.navigate: a result, a result with an error
\* text, or a protocol error.
NavigateReply ==
    /\ nav.cmd = "sent" /\ nav.cmdName = "Page.navigate"
    /\ \E r \in {"ok", "errorText", "failed"} : nav' = [nav EXCEPT !.cmd = r]
    /\ UNCHANGED <<frameUrl, reqs, nav2>> /\ UNCHANGED <<shotVars, surfaceVars, bridgeVars>>

\* goto resumes with the reply of Page.navigate.
GotoAfterNavigate ==
    /\ nav.op = "goto" /\ nav.pc = "navigate" /\ nav.cmd # "sent"
    /\ LET result == NavigateResult(nav.cmd)
       IN  nav' = CASE result = "raise" -> Raise(nav, "ProtocolError")
                    [] result = "errorText" -> Raise(nav, "NavigateErrorText")
                    [] OTHER -> [nav EXCEPT !.pc = "watch"]
    /\ UNCHANGED <<frameUrl, reqs, nav2>> /\ UNCHANGED <<shotVars, surfaceVars, bridgeVars>>

\* The watcher's navigationPromise completes, with or without an error.
WatcherComplete ==
    /\ nav.watcher = "pending" /\ ~nav.cancelled
    /\ \E w \in {"ok", "error"} : nav' = [nav EXCEPT !.watcher = w]
    /\ UNCHANGED <<frameUrl, reqs, nav2>> /\ UNCHANGED <<shotVars, surfaceVars, bridgeVars>>

\* goto resumes with the watcher's result.
GotoAfterWatcher ==
    /\ nav.op = "goto" /\ nav.pc = "watch" /\ nav.watcher \in {"ok", "error"}
    /\ LET s == [nav EXCEPT !.cancelled = TRUE, !.reqL = FALSE]
       IN  nav' = IF nav.watcher = "error"
                  THEN Raise(s, "NavigationError")
                  ELSE Return(s, ResponseOf(s.requests[frameUrl]))
    /\ UNCHANGED <<frameUrl, reqs, nav2>> /\ UNCHANGED <<shotVars, surfaceVars, bridgeVars>>

-----------------------------------------------------------------------------
\* waitForNavigation up to its first suspension, the await of the watcher.
WfnBody(s) ==
    IF frameUrl = NoFrame
    THEN [s EXCEPT !.wfn = "raised", !.wfnErr = "NoMainFrame"]
    ELSE [s EXCEPT !.wfn = "waiting", !.watcher = "pending",
                   !.responses = EmptyMap, !.respL = TRUE,
                   !.armedAt = Len(reqs)]

\* The two children awaited one after the other instead of gathered: the
\* command's error is seen only once waitForNavigation has returned.
GatherUpdate_Sequential(s) ==
    IF s.gather # "pending" THEN s
    ELSE IF s.wfn = "raised" THEN [s EXCEPT !.gather = "exc_wfn"]
    ELSE IF s.wfn = "returned" /\ s.cmd = "failed" THEN [s EXCEPT !.gather = "exc_cmd"]
    ELSE IF s.wfn = "returned" /\ s.cmd = "ok" THEN [s EXCEPT !.gather = "result"]
    ELSE s

\* A gathering future that has its result as soon as one child has one.
GatherUpdate_FirstCompleted(s) ==
    IF s.gather # "pending" THEN s
    ELSE IF s.wfn = "raised" THEN [s EXCEPT !.gather = "exc_wfn"]
    ELSE IF s.cmd = "failed" THEN [s EXCEPT !.gather = "exc_cmd"]
    ELSE IF s.wfn = "returned" \/ s.cmd = "ok" THEN [s EXCEPT !.gather = "result"]
    ELSE s

\* asyncio.gather: the first child that raises settles the gathering future
\* with its error; it has a result when both children have one.
GatherUpdate(s) ==
    IF s.gather # "pending" THEN s
    ELSE IF s.wfn = "raised" THEN [s EXCEPT !.gather = "exc_wfn"]
    ELSE IF s.cmd = "failed" THEN [s EXCEPT !.gather = "exc_cmd"]
    ELSE IF s.wfn = "returned" /\ s.cmd = "ok" THEN [s EXCEPT !.gather = "result"]
    ELSE s

\* The outcome of the waitForNavigation coroutine is the outcome of the call
\* when it was called directly, and the first child of gather otherwise.
WfnSettle(s) ==
    IF s.op = "waitForNavigation"
    THEN IF s.wfn = "raised" THEN Raise(s, s.wfnErr) ELSE Return(s, s.wfnVal)
    ELSE GatherUpdate(s)

\* A direct call of waitForNavigation.
WfnStart ==
    /\ nav.op = "none"
    /\ LET s == WfnBody([nav EXCEPT !.op = "waitForNavigation", !.pc = "wfn"])
       IN  nav' = IF s.wfn = "raised" THEN WfnSettle(s) ELSE s
    /\ UNCHANGED <<frameUrl, reqs, nav2>> /\ UNCHANGED <<shotVars, surfaceVars, bridgeVars>>

\* The task gather made of waitForNavigation runs its first step.
WfnBegin ==
    /\ nav.wfn = "created"
    /\ nav' = WfnSettle(WfnBody(nav))
    /\ UNCHANGED <<frameUrl, reqs, nav2>> /\ UNCHANGED <<shotVars, surfaceVars, bridgeVars>>

\* waitForNavigation resumes with the watcher's result.
WfnAfterWatcher ==
    /\ nav.wfn = "waiting" /\ nav.watcher \in {"ok", "error"}
    /\ LET s == [nav EXCEPT !.respL = FALSE]
       IN  nav' = IF nav.watcher = "error"
                  THEN WfnSettle([s EXCEPT !.wfn = "raised",
                                           !.wfnErr = "NavigationError"])
                  ELSE WfnSettle([s EXCEPT !.wfn = "returned",
                                           !.wfnVal = s.responses[frameUrl]])
    /\ UNCHANGED <<frameUrl, reqs, nav2>> /\ UNCHANGED <<shotVars, surfaceVars, bridgeVars>>

\* reload: gather(waitForNavigation(options), send('Page.reload')).
ReloadStart ==
    /\ nav.op = "none"
    /\ nav' = [nav EXCEPT !.op = "reload", !.pc = "gather",
                          !.gather = "pending", !.wfn = "created",
                          !.cmd = "created", !.cmdName = "Page.reload"]
    /\ UNCHANGED <<frameUrl, reqs, nav2>> /\ UNCHANGED <<shotVars, surfaceVars, bridgeVars>>

\* The command handed to gather goes out to the session. send is a
\* coroutine (the fire-and-forget sends wrap it in ensure_future): gather
\* makes a task of each child in the order of its arguments and the loop
\* runs them in that order, so the task of the command runs after the first
\* step of waitForNavigation, whatever that step did.
GatherCmdIssue ==
    /\ nav.cmd = "created" /\ nav.wfn # "created"
    /\ nav' = [nav EXCEPT !.cmd = "sent", !.sent = Append(nav.sent, nav.cmdName)]
    /\ UNCHANGED <<frameUrl, reqs, nav2>> /\ UNCHANGED <<shotVars, surfaceVars, bridgeVars>>

\* The session answers the command handed to gather.
GatherCmdReply ==
    /\ nav.cmd = "sent"
    /\ nav.cmdName \in {"Page.reload", "Page.navigateToHistoryEntry"}
    /\ \E r \in {"ok", "failed"} : nav' = GatherUpdate([nav EXCEPT !.cmd = r])
    /\ UNCHANGED <<frameUrl, reqs, nav2>> /\ UNCHANGED <<shotVars, surfaceVars, bridgeVars>>

\* reload or _go resumes with the outcome of gather: [0] of the results, or
\* the first error.
GatherResume ==
    /\ nav.pc = "gather" /\ nav.gather \notin {"none", "pending"}
    /\ nav' = CASE nav.gather = "result" -> Return(nav, nav.wfnVal)
                [] nav.gather = "exc_wfn" -> Raise(nav, nav.wfnErr)
                [] OTHER -> Raise(nav, "ProtocolError")
    /\ UNCHANGED <<frameUrl, reqs, nav2>> /\ UNCHANGED <<shotVars, surfaceVars, bridgeVars>>

-----------------------------------------------------------------------------
\* goBack (delta -1) and goForward (delta +1) up to the await of
\* Page.getNavigationHistory.
GoStart ==
    /\ nav.op = "none"
    /\ \E d \in {0 - 1, 1} :
         nav' = [nav EXCEPT !.op = IF d = 1 THEN "goForward" ELSE "goBack",
                            !.delta = d, !.pc = "history", !.cmd = "sent",
                            !.cmdName = "Page.getNavigationHistory",
                            !.sent = Append(nav.sent, "Page.getNavigationHistory")]
    /\ UNCHANGED <<frameUrl, reqs, nav2>> /\ UNCHANGED <<shotVars, surfaceVars, bridgeVars>>

\* The session answers Page.getNavigationHistory.
HistoryReply ==
    /\ nav.cmd = "sent" /\ nav.cmdName = "Page.getNavigationHistory"
    /\ \/ \E h \in Histories : nav' = [nav EXCEPT !.cmd = "ok", !.hist = h]
       \/ nav' = [nav EXCEPT !.cmd = "failed"]
    /\ UNCHANGED <<frameUrl, reqs, nav2>> /\ UNCHANGED <<shotVars, surfaceVars, bridgeVars>>

\* _go after the history reply: the bounds test, the lookup of the entry and
\* the start of gather.
GoAfterHistory ==
    /\ nav.pc = "history" /\ nav.cmd # "sent"
    /\ LET count == nav.hist.cur + nav.delta
           e == PyIndex(nav.hist.n, count)
       IN  nav' = IF nav.cmd = "failed" THEN Raise(nav, "ProtocolError")
                  ELSE IF nav.hist.n < count THEN Return(nav, 0)
                  ELSE IF ~e.ok THEN Raise(nav, "IndexError")
                  ELSE [nav EXCEPT !.pc = "gather", !.gather = "pending",
                                   !.wfn = "created", !.cmd = "created",
                                   !.cmdName = "Page.navigateToHistoryEntry",
                                   !.entry = e.idx]
    /\ UNCHANGED <<frameUrl, reqs, nav2>> /\ UNCHANGED <<shotVars, surfaceVars, bridgeVars>>

-----------------------------------------------------------------------------
\* The listener lambda of one call, when it is subscribed, records the
\* request (goto) or the response (waitForNavigation) under its url.
OnRequest(s, u, r) ==
    IF s.reqL THEN [s EXCEPT !.requests = SetItem(s.requests, u, r)] ELSE s

OnResponse(s, u, r) ==
    IF s.respL THEN [s EXCEPT !.responses = SetItem(s.responses, u, r)] ELSE s

\* The network manager emits Request: every subscribed listener records it.
RequestStarted ==
    /\ Len(reqs) < MaxReq
    /\ \E u \in Urls :
         /\ reqs' = Append(reqs, [url |-> u, resp |-> FALSE])
         /\ nav' = OnRequest(nav, u, Len(reqs) + 1)
         /\ nav2' = OnRequest(nav2, u, Len(reqs) + 1)
    /\ UNCHANGED frameUrl /\ UNCHANGED <<shotVars, surfaceVars, bridgeVars>>

\* The network manager emits Response for a request that has none yet.
ResponseReceived ==
    /\ \E r \in 1..Len(reqs) :
         /\ ~reqs[r].resp
         /\ reqs' = [reqs EXCEPT ![r].resp = TRUE]
         /\ nav' = OnResponse(nav, reqs[r].url, r)
         /\ nav2' = OnResponse(nav2, reqs[r].url, r)
    /\ UNCHANGED frameUrl /\ UNCHANGED <<shotVars, surfaceVars, bridgeVars>>

\* The main frame commits a navigation: its url changes.
FrameNavigated ==
    /\ \E u \in Urls : u # frameUrl /\ frameUrl' = u
    /\ UNCHANGED <<reqs, nav, nav2>> /\ UNCHANGED <<shotVars, surfaceVars, bridgeVars>>

-----------------------------------------------------------------------------
(***************************************************************************)
(* A second call, goto or waitForNavigation, made while the first call is  *)
(* pending. It runs the same code on its own locals: its own requests or   *)
(* responses dict, its own listener and its own watcher.                   *)
(***************************************************************************)
FirstPending == nav.op # "none" /\ nav.pc # "done"

SecondCalled == nav2.op # "none"

SomePending == FirstPending \/ (nav2.op # "none" /\ nav2.pc # "done")

\* goto, called a second time, up to the await of Page.navigate.
Goto2Start ==
    /\ FirstPending /\ nav2.op = "none"
    /\ LET s == [nav2 EXCEPT !.op = "goto", !.requests = EmptyMap,
                             !.reqL = TRUE, !.armedAt = Len(reqs)]
       IN  IF frameUrl = NoFrame
           THEN nav2' = Raise(s, "NoMainFrame")
           ELSE nav2' = [s EXCEPT !.watcher = "pending", !.pc = "navigate",
                                  !.cmd = "sent", !.cmdName = "Page.navigate",
                                  !.sent = Append(s.sent, "Page.navigate")]
    /\ UNCHANGED <<frameUrl, reqs, nav>> /\ UNCHANGED <<shotVars, surfaceVars, bridgeVars>>

\* The session answers the second call's Page.navigate.
Navigate2Reply ==
    /\ nav2.cmd = "sent" /\ nav2.cmdName = "Page.navigate"
    /\ \E r \in {"ok", "errorText", "failed"} : nav2' = [nav2 EXCEPT !.cmd = r]
    /\ UNCHANGED <<frameUrl, reqs, nav>> /\ UNCHANGED <<shotVars, surfaceVars, bridgeVars>>

\* The second goto resumes with the reply of Page.navigate.
Goto2AfterNavigate ==
    /\ nav2.op = "goto" /\ nav2.pc = "navigate" /\ nav2.cmd # "sent"
    /\ LET result == NavigateResult(nav2.cmd)
       IN  nav2' = CASE result = "raise" -> Raise(nav2, "ProtocolError")
                     [] result = "errorText" -> Raise(nav2, "NavigateErrorText")
                     [] OTHER -> [nav2 EXCEPT !.pc = "watch"]
    /\ UNCHANGED <<frameUrl, reqs, nav>> /\ UNCHANGED <<shotVars, surfaceVars, bridgeVars>>

\* The second call's watcher completes.
Watcher2Complete ==
    /\ nav2.watcher = "pending" /\ ~nav2.cancelled
    /\ \E w \in {"ok", "error"} : nav2' = [nav2 EXCEPT !.watcher = w]
    /\ UNCHANGED <<frameUrl, reqs, nav>> /\ UNCHANGED <<shotVars, surfaceVars, bridgeVars>>

\* removeEventListeners of every listener of the network manager instead of
\* the call's own.
Goto2AfterWatcher_RemoveAll ==
    /\ nav2.op = "goto" /\ nav2.pc = "watch" /\ nav2.watcher \in {"ok", "error"}
    /\ LET s == [nav2 EXCEPT !.cancelled = TRUE, !.reqL = FALSE]
       IN  nav2' = IF nav2.watcher = "error"
                   THEN Raise(s, "NavigationError")
                   ELSE Return(s, ResponseOf(s.requests[frameUrl]))
    /\ nav' = [nav EXCEPT !.reqL = FALSE, !.respL = FALSE]
    /\ UNCHANGED <<frameUrl, reqs>> /\ UNCHANGED <<shotVars, surfaceVars, bridgeVars>>

\* The second goto resumes with its watcher's result: it cancels its own
\* watcher and removes its own listener.
Goto2AfterWatcher ==
    /\ nav2.op = "goto" /\ nav2.pc = "watch" /\ nav2.watcher \in {"ok", "error"}
    /\ LET s == [nav2 EXCEPT !.cancelled = TRUE, !.reqL = FALSE]
       IN  nav2' = IF nav2.watcher = "error"
                   THEN Raise(s, "NavigationError")
                   ELSE Return(s, ResponseOf(s.requests[frameUrl]))
    /\ UNCHANGED <<frameUrl, reqs, nav>> /\ UNCHANGED <<shotVars, surfaceVars, bridgeVars>>

\* waitForNavigation, called a second time, up to the await of its watcher.
Wfn2Start ==
    /\ FirstPending /\ nav2.op = "none"
    /\ LET s == WfnBody([nav2 EXCEPT !.op = "waitForNavigation", !.pc = "wfn"])
       IN  nav2' = IF s.wfn = "raised" THEN WfnSettle(s) ELSE s
    /\ UNCHANGED <<frameUrl, reqs, nav>> /\ UNCHANGED <<shotVars, surfaceVars, bridgeVars>>

\* The second waitForNavigation resumes with its watcher's result.
Wfn2AfterWatcher ==
    /\ nav2.wfn = "waiting" /\ nav2.watcher \in {"ok", "error"}
    /\ LET s == [nav2 EXCEPT !.respL = FALSE]
       IN  nav2' = IF nav2.watcher = "error"
                   THEN WfnSettle([s EXCEPT !.wfn = "raised",
                                            !.wfnErr = "NavigationError"])
                   ELSE WfnSettle([s EXCEPT !.wfn = "returned",
                                            !.wfnVal = s.responses[frameUrl]])
    /\ UNCHANGED <<frameUrl, reqs, nav>> /\ UNCHANGED <<shotVars, surfaceVars, bridgeVars>>

-----------------------------------------------------------------------------
(***************************************************************************)
(* screenshot and _screenshotTask.                                         *)
(***************************************************************************)
Viewports == {"vA", "vB"}

\* Page._viewport is not set (a page created with appMode never calls
\* setViewport).
Unset == "unset"

\* What mimetypes.guess_type makes of options['path']; "absent" stands for
\* options without the key.
PathKinds == {"absent", "image/png", "image/jpeg", "other"}

TypeOptions == {"absent", "png", "jpeg"}

ShotOptions ==
    [path : PathKinds, type : TypeOptions, fullPage : BOOLEAN,
     omitBackground : BOOLEAN]

ShotIdle ==
    [pc |-> "idle",
     opt |-> [path |-> "absent", type |-> "absent", fullPage |-> FALSE,
              omitBackground |-> FALSE],
     format |-> "none", pre |-> "none", returned |-> FALSE, raised |-> "none"]

\* The device metrics emulateViewport sets for a viewport.
ViewportMetrics(v) == [kind |-> "viewport", of |-> v, width |-> 0, height |-> 0]

\* The device metrics _screenshotTask sets for a full-page capture.
FullPageMetrics(v, w, h) == [kind |-> "fullPage", of |-> v, width |-> w, height |-> h]

DefaultMetrics == [kind |-> "default", of |-> Unset, width |-> 0, height |-> 0]

\* screenshot's choice of the encoding: "error" when it raises.
ScreenshotType(opt) ==
    LET fromPath == CASE opt.path = "absent" -> "None"
                      [] opt.path = "image/png" -> "png"
                      [] opt.path = "image/jpeg" -> "jpeg"
                      [] OTHER -> "error"
    IN  IF fromPath = "error" THEN "error"
        ELSE IF opt.type # "absent" THEN opt.type
        ELSE IF fromPath = "None" THEN "png"
        ELSE fromPath

\* The step of _screenshotTask that follows the capture's reply.
AfterCapture(opt) ==
    IF opt.omitBackground THEN "resetBackground"
    ELSE IF opt.fullPage THEN "restore"
    ELSE "finish"

\* The step of _screenshotTask that follows the full-page block.
BeforeCapture(opt) == IF opt.omitBackground THEN "setBackground" ELSE "capture"

ShotRaise(s, e) == [s EXCEPT !.pc = "done", !.raised = e]

-----------------------------------------------------------------------------
\* Page.setViewport called by the user while no screenshot is in progress.
SetViewport ==
    /\ shot.pc = "idle"
    /\ \E v \in Viewports :
         /\ v # viewport
         /\ viewport' = v
         /\ metrics' = ViewportMetrics(v)
    /\ UNCHANGED <<background, shot>> /\ UNCHANGED navVars /\ UNCHANGED bridgeVars /\ UNCHANGED surfaceVars

\* screenshot: the choice of the encoding, then _screenshotTask up to the
\* await of Target.activateTarget.
ScreenshotStart ==
    /\ shot.pc = "idle"
    /\ \E opt \in ShotOptions :
         LET t == ScreenshotType(opt)
             s == [shot EXCEPT !.opt = opt, !.pre = metrics]
         IN  shot' = IF t = "error"
                     THEN ShotRaise(s, "UnsupportedMimeType")
                     ELSE [s EXCEPT !.format = t, !.pc = "activate"]
    /\ UNCHANGED <<viewport, metrics, background>> /\ UNCHANGED navVars /\ UNCHANGED bridgeVars /\ UNCHANGED surfaceVars

\* Target.activateTarget is answered.
ShotActivate ==
    /\ shot.pc = "activate"
    /\ \E ok \in BOOLEAN :
         shot' = IF ~ok THEN ShotRaise(shot, "ProtocolError")
                 ELSE IF shot.opt.fullPage THEN [shot EXCEPT !.pc = "layout"]
                 ELSE [shot EXCEPT !.pc = BeforeCapture(shot.opt)]
    /\ UNCHANGED <<viewport, metrics, background>> /\ UNCHANGED navVars /\ UNCHANGED bridgeVars /\ UNCHANGED surfaceVars

\* Page.getLayoutMetrics is answered; _screenshotTask reads self._viewport
\* and sends Emulation.setDeviceMetricsOverride, which is answered.
ShotOverride ==
    /\ shot.pc = "layout"
    /\ \/ /\ shot' = ShotRaise(shot, "ProtocolError")
          /\ UNCHANGED metrics
       \/ /\ viewport = Unset
          /\ shot' = ShotRaise(shot, "AttributeError")
          /\ UNCHANGED metrics
       \/ /\ viewport # Unset
          /\ \E w \in 1..MaxContent, h \in 1..MaxContent, ok \in BOOLEAN :
               IF ok
               THEN /\ metrics' = FullPageMetrics(viewport, w, h)
                    /\ shot' = [shot EXCEPT !.pc = BeforeCapture(shot.opt)]
               ELSE /\ UNCHANGED metrics
                    /\ shot' = ShotRaise(shot, "ProtocolError")
    /\ UNCHANGED <<viewport, background>> /\ UNCHANGED navVars /\ UNCHANGED bridgeVars /\ UNCHANGED surfaceVars

\* Emulation.setDefaultBackgroundColorOverride (transparent) is answered.
ShotSetBackground ==
    /\ shot.pc = "setBackground"
    /\ \E ok \in BOOLEAN :
         IF ok
         THEN /\ background' = "transparent"
              /\ shot' = [shot EXCEPT !.pc = "capture"]
         ELSE /\ UNCHANGED background
              /\ shot' = ShotRaise(shot, "ProtocolError")
    /\ UNCHANGED <<viewport, metrics>> /\ UNCHANGED navVars /\ UNCHANGED bridgeVars /\ UNCHANGED surfaceVars

\* Page.captureScreenshot is answered.
ShotCapture ==
    /\ shot.pc = "capture"
    /\ \E ok \in BOOLEAN :
         shot' = IF ok THEN [shot EXCEPT !.pc = AfterCapture(shot.opt)]
                 ELSE ShotRaise(shot, "ProtocolError")
    /\ UNCHANGED <<viewport, metrics, background>> /\ UNCHANGED navVars /\ UNCHANGED bridgeVars /\ UNCHANGED surfaceVars

\* Emulation.setDefaultBackgroundColorOverride (no colour) is answered.
ShotResetBackground ==
    /\ shot.pc = "resetBackground"
    /\ \E ok \in BOOLEAN :
         IF ok
         THEN /\ background' = "default"
              /\ shot' = [shot EXCEPT !.pc = IF shot.opt.fullPage
                                              THEN "restore" ELSE "finish"]
         ELSE /\ UNCHANGED background
              /\ shot' = ShotRaise(shot, "ProtocolError")
    /\ UNCHANGED <<viewport, metrics>> /\ UNCHANGED navVars /\ UNCHANGED bridgeVars /\ UNCHANGED surfaceVars

\* setViewport(self._viewport): the emulation manager's command is answered.
ShotRestore ==
    /\ shot.pc = "restore"
    /\ \E ok \in BOOLEAN :
         IF ok
         THEN /\ metrics' = ViewportMetrics(viewport)
              /\ shot' = [shot EXCEPT !.pc = "finish"]
         ELSE /\ UNCHANGED metrics
              /\ shot' = ShotRaise(shot, "ProtocolError")
    /\ UNCHANGED <<viewport, background>> /\ UNCHANGED navVars /\ UNCHANGED bridgeVars /\ UNCHANGED surfaceVars

\* The data is decoded (and written to the path) and returned.
ShotFinish ==
    /\ shot.pc = "finish"
    /\ shot' = [shot EXCEPT !.pc = "done", !.returned = TRUE]
    /\ UNCHANGED <<viewport, metrics, background>> /\ UNCHANGED navVars /\ UNCHANGED bridgeVars /\ UNCHANGED surfaceVars

-----------------------------------------------------------------------------
(***************************************************************************)
(* exposeFunction, the stub it installs in the page, and _onConsoleAPI.    *)
(***************************************************************************)
Names == {"a", "b"}

\* The callables handed to exposeFunction: "f" returns, "boom" raises.
Callables == {"f", "boom"}

\* No entry under a name of _pageBindings.
NoBinding == "none"

Throws(fn) == fn = "boom"

\* The value a callable returns for its arguments.
ResultOf(fn, args) == [fn |-> fn, args |-> args]

\* The first argument of the console call a stub makes.
Sentinel == "driver:page-binding"

\* Remote objects, the arguments of a console event: a string (it has a
\* 'value'), a string that is the JSON text of {name, seq, args}, or an
\* object (it has no 'value' key).
Str(v) == [kind |-> "str", value |-> v, name |-> "", seq |-> 0, args |-> <<>>]

Json(n, q, a) == [kind |-> "json", value |-> "json", name |-> n, seq |-> q, args |-> a]

Obj == [kind |-> "obj", value |-> "", name |-> "", seq |-> 0, args |-> <<>>]

\* The argument list page script passes to a stub.
CallArgs == {<<"p">>}

\* window[name] is undefined.
NoStub == [inst |-> 0, lastSeq |-> 0, callbacks |-> {}]

\* window[name] as addPageBinding leaves it: a new function object (the
\* inst-th one installed under the name in this context), which has neither
\* 'callbacks' nor 'lastSeq'.
FreshStub(inst) == [inst |-> inst, lastSeq |-> 0, callbacks |-> {}]

ExposeIdle == [pc |-> "idle", name |-> "", fn |-> "", returned |-> FALSE, raised |-> "none"]

LastNone ==
    [handled |-> FALSE, type |-> "", args |-> <<>>, listeners |-> 0,
     raised |-> "none", invoked |-> <<>>, delivered |-> <<>>,
     released |-> <<>>, emitted |-> <<>>]

\* The test of exposeFunction that never finds a name bound.
AlreadyBound_Never(name) == FALSE

\* `if self._pageBindings.get(name)`: the name has a callable.
AlreadyBound(name) == pageBindings[name] # NoBinding

InSeq(x, sq) == \E i \in 1..Len(sq) : sq[i] = x

-----------------------------------------------------------------------------
\* An exposeFunction that does not store the callable before it sends the
\* bootstrap.
ExposeStart_NoStore ==
    /\ expose.pc \in {"idle", "done"}
    /\ \E n \in Names, fn \in Callables :
         LET e == [pc |-> "addScript", name |-> n, fn |-> fn,
                   returned |-> FALSE, raised |-> "none"]
         IN  IF AlreadyBound(n)
             THEN /\ expose' = [e EXCEPT !.pc = "done", !.raised = "PageError"]
                  /\ UNCHANGED pageBindings
             ELSE /\ expose' = e
                  /\ UNCHANGED pageBindings
    /\ UNCHANGED <<scripts, ctx, stub, calls, console, made, deliveries, fulfilled,
                   listeners, last>>
    /\ UNCHANGED navVars /\ UNCHANGED shotVars /\ UNCHANGED surfaceVars

\* exposeFunction up to the await of Page.addScriptToEvaluateOnNewDocument.
ExposeStart ==
    /\ expose.pc \in {"idle", "done"}
    /\ \E n \in Names, fn \in Callables :
         LET e == [pc |-> "addScript", name |-> n, fn |-> fn,
                   returned |-> FALSE, raised |-> "none"]
         IN  IF AlreadyBound(n)
             THEN /\ expose' = [e EXCEPT !.pc = "done", !.raised = "PageError"]
                  /\ UNCHANGED pageBindings
             ELSE /\ expose' = e
                  /\ pageBindings' = [pageBindings EXCEPT ![n] = fn]
    /\ UNCHANGED <<scripts, ctx, stub, calls, console, made, deliveries, fulfilled,
                   listeners, last>>
    /\ UNCHANGED navVars /\ UNCHANGED shotVars /\ UNCHANGED surfaceVars

\* Page.addScriptToEvaluateOnNewDocument is answered; on success
\* exposeFunction goes on to evaluate the bootstrap in the current frames.
ExposeAddScriptReply ==
    /\ expose.pc = "addScript"
    /\ \E ok \in BOOLEAN :
         IF ok
         THEN /\ scripts' = Append(scripts, expose.name)
              /\ expose' = [expose EXCEPT !.pc = "evaluate"]
         ELSE /\ UNCHANGED scripts
              /\ expose' = [expose EXCEPT !.pc = "done", !.raised = "ProtocolError"]
    /\ UNCHANGED <<pageBindings, ctx, stub, calls, console, made, deliveries,
                   fulfilled, listeners, last>>
    /\ UNCHANGED navVars /\ UNCHANGED shotVars /\ UNCHANGED surfaceVars

\* frame.evaluate of the bootstrap runs in the frame's current context and
\* assigns window[name], or fails; asyncio.wait returns in both cases.
ExposeEvaluate ==
    /\ expose.pc = "evaluate"
    /\ \E ok \in BOOLEAN :
         stub' = IF ok
                 THEN [stub EXCEPT ![expose.name] = FreshStub(stub[expose.name].inst + 1)]
                 ELSE stub
    /\ expose' = [expose EXCEPT !.pc = "done", !.returned = TRUE]
    /\ UNCHANGED <<pageBindings, scripts, ctx, calls, console, made, deliveries,
                   fulfilled, listeners, last>>
    /\ UNCHANGED navVars /\ UNCHANGED shotVars /\ UNCHANGED surfaceVars

\* The main frame loads a new document: a new context, in which the browser
\* has evaluated the registered bootstrap scripts.
NewDocument ==
    /\ ctx < MaxCtx
    /\ ctx' = ctx + 1
    /\ stub' = [n \in Names |-> IF InSeq(n, scripts) THEN FreshStub(1) ELSE NoStub]
    /\ UNCHANGED <<pageBindings, expose, scripts, calls, console, made, deliveries,
                   fulfilled, listeners, last>>
    /\ UNCHANGED navVars /\ UNCHANGED shotVars /\ UNCHANGED surfaceVars

\* Page script calls window[name](...args): the stub takes the next sequence
\* number, records the pending completion and calls console.debug.
StubCall ==
    /\ Len(calls) < MaxCalls
    /\ \E n \in Names, a \in CallArgs :
         /\ stub[n].inst # 0
         /\ LET seq == stub[n].lastSeq + 1
            IN  /\ stub' = [stub EXCEPT ![n].lastSeq = seq,
                                        ![n].callbacks = @ \cup {seq}]
                /\ calls' = Append(calls, [name |-> n, ctx |-> ctx,
                                           inst |-> stub[n].inst, seq |-> seq,
                                           args |-> a])
                /\ console' = Append(console,
                                [type |-> "debug",
                                 args |-> <<Str(Sentinel), Json(n, seq, a)>>,
                                 ctx |-> ctx, call |-> Len(calls) + 1])
    /\ UNCHANGED <<pageBindings, expose, scripts, ctx, made, deliveries,
                   fulfilled, listeners, last>>
    /\ UNCHANGED navVars /\ UNCHANGED shotVars /\ UNCHANGED surfaceVars

\* The arguments page script may pass to a console call.
ConsoleArgs == {Str(Sentinel), Str("x"), Obj, Json("a", 1, <<>>)}

ConsoleArgLists == UNION {[1..k -> ConsoleArgs] : k \in 0..MaxArgs}

\* Page script calls console.log or console.debug itself.
ConsoleCall ==
    /\ made < MaxConsole
    /\ made' = made + 1
    /\ \E t \in {"log", "debug"}, a \in ConsoleArgLists :
         console' = Append(console, [type |-> t, args |-> a, ctx |-> ctx, call |-> 0])
    /\ UNCHANGED <<pageBindings, expose, scripts, ctx, stub, calls, deliveries,
                   fulfilled, listeners, last>>
    /\ UNCHANGED navVars /\ UNCHANGED shotVars /\ UNCHANGED surfaceVars

\* page.on('console', ...) and page.remove_listener('console', ...).
AddListener ==
    /\ listeners < MaxListeners
    /\ listeners' = listeners + 1
    /\ UNCHANGED <<pageBindings, expose, scripts, ctx, stub, calls, console, made,
                   deliveries, fulfilled, last>>
    /\ UNCHANGED navVars /\ UNCHANGED shotVars /\ UNCHANGED surfaceVars

RemoveListener ==
    /\ listeners > 0
    /\ listeners' = listeners - 1
    /\ UNCHANGED <<pageBindings, expose, scripts, ctx, stub, calls, console, made,
                   deliveries, fulfilled, last>>
    /\ UNCHANGED navVars /\ UNCHANGED shotVars /\ UNCHANGED surfaceVars

-----------------------------------------------------------------------------
\* helper.valueFromRemoteObject: the value a remote object materializes to.
ValueOf(arg) == IF arg.kind = "obj" THEN "object" ELSE arg.value

\* A handler without the bridge: every event is a plain console call.
HandleConsole_NoBridge(ev, bindings, nListeners) ==
    LET args == ev.args
        done == [handled |-> TRUE, type |-> ev.type, args |-> args,
                 listeners |-> nListeners, raised |-> "none",
                 invoked |-> <<>>, delivered |-> <<>>, released |-> <<>>,
                 emitted |-> <<>>]
    IN  IF nListeners = 0
        THEN [done EXCEPT !.released = args]
        ELSE IF Len(args) = 0
        THEN [done EXCEPT !.emitted = << <<>> >>]
        ELSE [done EXCEPT !.raised = "RuntimeError"]

\* A handler that sends the delivery to the frame's current context.
HandleConsole_CurrentContext(ev, bindings, nListeners) ==
    LET args == ev.args
        done == [handled |-> TRUE, type |-> ev.type, args |-> args,
                 listeners |-> nListeners, raised |-> "none",
                 invoked |-> <<>>, delivered |-> <<>>, released |-> <<>>,
                 emitted |-> <<>>]
        plain ==
            IF nListeners = 0
            THEN [done EXCEPT !.released = args]
            ELSE IF Len(args) = 0
            THEN [done EXCEPT !.emitted = << <<>> >>]
            ELSE [done EXCEPT !.raised = "RuntimeError"]
        binding ==
            IF Len(args) < 2 THEN [done EXCEPT !.raised = "IndexError"]
            ELSE IF args[2].kind = "obj" THEN [done EXCEPT !.raised = "KeyError"]
            ELSE IF args[2].kind # "json" THEN [done EXCEPT !.raised = "JSONDecodeError"]
            ELSE IF bindings[args[2].name] = NoBinding
            THEN [done EXCEPT !.raised = "KeyError"]
            ELSE LET fn == bindings[args[2].name]
                     inv == [done EXCEPT !.invoked = <<[fn |-> fn, args |-> args[2].args]>>]
                 IN  IF Throws(fn)
                     THEN [inv EXCEPT !.raised = "CallableError"]
                     ELSE [inv EXCEPT !.delivered =
                              <<[name |-> args[2].name, seq |-> args[2].seq,
                                 result |-> ResultOf(fn, args[2].args),
                                 ctx |-> ctx, by |-> ev.call]>>]
    IN  IF ev.type = "debug" /\ Len(args) > 0
        THEN IF args[1].kind = "obj" THEN [done EXCEPT !.raised = "KeyError"]
             ELSE IF args[1].value = Sentinel THEN binding
             ELSE plain
        ELSE plain

\* A handler that ignores the record of a name without a binding.
HandleConsole_SwallowMissing(ev, bindings, nListeners) ==
    LET args == ev.args
        done == [handled |-> TRUE, type |-> ev.type, args |-> args,
                 listeners |-> nListeners, raised |-> "none",
                 invoked |-> <<>>, delivered |-> <<>>, released |-> <<>>,
                 emitted |-> <<>>]
        plain ==
            IF nListeners = 0
            THEN [done EXCEPT !.released = args]
            ELSE IF Len(args) = 0
            THEN [done EXCEPT !.emitted = << <<>> >>]
            ELSE [done EXCEPT !.raised = "RuntimeError"]
        binding ==
            IF Len(args) < 2 THEN [done EXCEPT !.raised = "IndexError"]
            ELSE IF args[2].kind = "obj" THEN [done EXCEPT !.raised = "KeyError"]
            ELSE IF args[2].kind # "json" THEN [done EXCEPT !.raised = "JSONDecodeError"]
            ELSE IF bindings[args[2].name] = NoBinding
            THEN done
            ELSE LET fn == bindings[args[2].name]
                     inv == [done EXCEPT !.invoked = <<[fn |-> fn, args |-> args[2].args]>>]
                 IN  IF Throws(fn)
                     THEN [inv EXCEPT !.raised = "CallableError"]
                     ELSE [inv EXCEPT !.delivered =
                              <<[name |-> args[2].name, seq |-> args[2].seq,
                                 result |-> ResultOf(fn, args[2].args),
                                 ctx |-> ev.ctx, by |-> ev.call]>>]
    IN  IF ev.type = "debug" /\ Len(args) > 0
        THEN IF args[1].kind = "obj" THEN [done EXCEPT !.raised = "KeyError"]
             ELSE IF args[1].value = Sentinel THEN binding
             ELSE plain
        ELSE plain

\* _onConsoleAPI on one event. The result says what the handler did: the
\* error it raised ("none" when it returned), the callables it invoked, the
\* deliveries and releases it dispatched and the console events it emitted.
HandleConsole(ev, bindings, nListeners) ==
    LET args == ev.args
        done == [handled |-> TRUE, type |-> ev.type, args |-> args,
                 listeners |-> nListeners, raised |-> "none",
                 invoked |-> <<>>, delivered |-> <<>>, released |-> <<>>,
                 emitted |-> <<>>]
        plain ==
            IF nListeners = 0
            THEN [done EXCEPT !.released = args]
            ELSE IF Len(args) = 0
            THEN [done EXCEPT !.emitted = << <<>> >>]
            ELSE [done EXCEPT !.raised = "RuntimeError"]
        binding ==
            IF Len(args) < 2 THEN [done EXCEPT !.raised = "IndexError"]
            ELSE IF args[2].kind = "obj" THEN [done EXCEPT !.raised = "KeyError"]
            ELSE IF args[2].kind # "json" THEN [done EXCEPT !.raised = "JSONDecodeError"]
            ELSE IF bindings[args[2].name] = NoBinding
            THEN [done EXCEPT !.raised = "KeyError"]
            ELSE LET fn == bindings[args[2].name]
                     inv == [done EXCEPT !.invoked = <<[fn |-> fn, args |-> args[2].args]>>]
                 IN  IF Throws(fn)
                     THEN [inv EXCEPT !.raised = "CallableError"]
                     ELSE [inv EXCEPT !.delivered =
                              <<[name |-> args[2].name, seq |-> args[2].seq,
                                 result |-> ResultOf(fn, args[2].args),
                                 ctx |-> ev.ctx, by |-> ev.call]>>]
    IN  IF ev.type = "debug" /\ Len(args) > 0
        THEN IF args[1].kind = "obj" THEN [done EXCEPT !.raised = "KeyError"]
             ELSE IF args[1].value = Sentinel THEN binding
             ELSE plain
        ELSE plain

\* A handler whose delivery overtakes the deliveries already dispatched.
OnConsoleAPI_Overtaking ==
    /\ console # <<>>
    /\ LET r == HandleConsole(Head(console), pageBindings, listeners)
       IN  /\ last' = r
           /\ deliveries' = r.delivered \o deliveries
    /\ console' = Tail(console)
    /\ UNCHANGED <<pageBindings, expose, scripts, ctx, stub, calls, made,
                   fulfilled, listeners>>
    /\ UNCHANGED navVars /\ UNCHANGED shotVars /\ UNCHANGED surfaceVars

\* The session delivers the next Runtime.consoleAPICalled event.
OnConsoleAPI ==
    /\ console # <<>>
    /\ LET r == HandleConsole(Head(console), pageBindings, listeners)
       IN  /\ last' = r
           /\ deliveries' = deliveries \o r.delivered
    /\ console' = Tail(console)
    /\ UNCHANGED <<pageBindings, expose, scripts, ctx, stub, calls, made,
                   fulfilled, listeners>>
    /\ UNCHANGED navVars /\ UNCHANGED shotVars /\ UNCHANGED surfaceVars

\* deliverResult has a completion to fulfil: the command targets the current
\* context, window[name] is a stub and its callbacks hold the sequence number.
Deliverable(d) ==
    /\ d.ctx = ctx
    /\ stub[d.name].inst # 0
    /\ d.seq \in stub[d.name].callbacks

\* The browser runs the next deliverResult command: it fulfils and deletes
\* the pending completion, or throws before it changes anything.
Deliver ==
    /\ deliveries # <<>>
    /\ LET d == Head(deliveries)
       IN  IF Deliverable(d)
           THEN /\ stub' = [stub EXCEPT ![d.name].callbacks = @ \ {d.seq}]
                /\ fulfilled' = Append(fulfilled,
                                  [name |-> d.name, ctx |-> ctx,
                                   inst |-> stub[d.name].inst, seq |-> d.seq,
                                   result |-> d.result, by |-> d.by])
           ELSE UNCHANGED <<stub, fulfilled>>
    /\ deliveries' = Tail(deliveries)
    /\ UNCHANGED <<pageBindings, expose, scripts, ctx, calls, console, made,
                   listeners, last>>
    /\ UNCHANGED navVars /\ UNCHANGED shotVars /\ UNCHANGED surfaceVars

-----------------------------------------------------------------------------
(***************************************************************************)
(* setCookie and deleteCookie.                                             *)
(***************************************************************************)
CookieNames == {"n1", "n2"}

\* The dict of a cookie has no 'url' key.
Absent == "absent"

\* The 'url' of a cookie as the caller passes it: no key, an empty string,
\* or a url.
CookieUrls == {Absent, "", "http://c"}

Cookies == [name : CookieNames, url : CookieUrls]

CookieLists == UNION {[1..n -> Cookies] : n \in 0..MaxCookies}

\* The urls the main frame of the cookie operations has.
PageUrls == {"http://a", "about:blank"}

\* str.startswith('http').
StartsWithHttp(u) == u \in {"http://a", "http://c"}

\* The truth value of cookie.get('url'): None and '' are false.
Truthy(u) == u \notin {Absent, ""}

\* The item setCookie builds of a cookie: the page url is the default of a
\* cookie without the key.
SetCookieItem(cookie, pageURL) ==
    IF cookie.url = Absent /\ StartsWithHttp(pageURL)
    THEN [cookie EXCEPT !.url = pageURL]
    ELSE cookie

\* The item deleteCookie builds of a cookie: the page url is the default of
\* a cookie whose url is missing or empty.
DeleteCookieItem(cookie, pageURL) ==
    IF ~Truthy(cookie.url) /\ StartsWithHttp(pageURL)
    THEN [cookie EXCEPT !.url = pageURL]
    ELSE cookie

CookieIdle ==
    [pc |-> "idle", items |-> <<>>, pageURL |-> "", i |-> 0,
     reply |-> "none", returned |-> FALSE, raised |-> "none"]

\* A command as the session receives it.
Command(method, params) ==
    [method |-> method, params |-> params, answered |-> FALSE]

\* deleteCookie sends Network.deleteCookies for the i-th cookie it was given.
SendDelete(c, i) ==
    Append(cookieLog,
           Command("Network.deleteCookies",
                   <<DeleteCookieItem(c.items[i], c.pageURL)>>))

\* setCookie up to its first suspension: the items, then deleteCookie up to
\* its first send. Page.url raises when there is no main frame.
SetCookieStart ==
    /\ cookieCall.pc = "idle"
    /\ \E cs \in CookieLists :
         LET items == [k \in 1..Len(cs) |-> SetCookieItem(cs[k], frameUrl)]
             c == [cookieCall EXCEPT !.items = items, !.pageURL = frameUrl]
         IN  IF frameUrl = NoFrame
             THEN /\ cookieCall' = [c EXCEPT !.pc = "done", !.raised = "PageError"]
                  /\ UNCHANGED cookieLog
             ELSE IF Len(items) = 0
             THEN /\ cookieCall' = [c EXCEPT !.pc = "done", !.returned = TRUE]
                  /\ UNCHANGED cookieLog
             ELSE /\ cookieCall' = [c EXCEPT !.pc = "delete", !.i = 1]
                  /\ cookieLog' = SendDelete(c, 1)
    /\ UNCHANGED <<ignoreHTTPSErrors, certCmds, certLast, sample>>
    /\ UNCHANGED <<navVars, shotVars, bridgeVars, teardownVars>>

\* The session answers the command the call is waiting for.
CookieCmdReply ==
    /\ cookieCall.pc \in {"delete", "set"} /\ cookieCall.reply = "none"
    /\ \E r \in {"ok", "failed"} : cookieCall' = [cookieCall EXCEPT !.reply = r]
    /\ cookieLog' = [cookieLog EXCEPT ![Len(cookieLog)].answered = TRUE]
    /\ UNCHANGED <<ignoreHTTPSErrors, certCmds, certLast, sample>>
    /\ UNCHANGED <<navVars, shotVars, bridgeVars, teardownVars>>

\* deleteCookie resumes with the reply of Network.deleteCookies: the next
\* cookie, or back in setCookie the send of Network.setCookies.
DeleteCookieResume ==
    /\ cookieCall.pc = "delete" /\ cookieCall.reply # "none"
    /\ LET c == [cookieCall EXCEPT !.reply = "none"]
       IN  IF cookieCall.reply = "failed"
           THEN /\ cookieCall' = [c EXCEPT !.pc = "done", !.raised = "ProtocolError"]
                /\ UNCHANGED cookieLog
           ELSE IF c.i < Len(c.items)
           THEN /\ cookieCall' = [c EXCEPT !.i = c.i + 1]
                /\ cookieLog' = SendDelete(c, c.i + 1)
           ELSE /\ cookieCall' = [c EXCEPT !.pc = "set"]
                /\ cookieLog' = Append(cookieLog, Command("Network.setCookies", c.items))
    /\ UNCHANGED <<ignoreHTTPSErrors, certCmds, certLast, sample>>
    /\ UNCHANGED <<navVars, shotVars, bridgeVars, teardownVars>>

\* setCookie resumes with the reply of Network.setCookies.
SetCookieResume ==
    /\ cookieCall.pc = "set" /\ cookieCall.reply # "none"
    /\ cookieCall' = IF cookieCall.reply = "failed"
                     THEN [cookieCall EXCEPT !.pc = "done", !.raised = "ProtocolError"]
                     ELSE [cookieCall EXCEPT !.pc = "done", !.returned = TRUE]
    /\ UNCHANGED <<cookieLog, ignoreHTTPSErrors, certCmds, certLast, sample>>
    /\ UNCHANGED <<navVars, shotVars, bridgeVars, teardownVars>>

\* The main frame of the cookie operations navigates.
CookieFrameNavigated ==
    /\ \E u \in PageUrls : u # frameUrl /\ frameUrl' = u
    /\ UNCHANGED <<reqs, nav, nav2>> /\ UNCHANGED <<shotVars, surfaceVars, bridgeVars>>

-----------------------------------------------------------------------------
(***************************************************************************)
(* The event hub: _onCertificateError and _emitMetrics.                    *)
(***************************************************************************)
EventIds == {1, 2}

CertIdle == [n |-> 0, eventId |-> 0, raised |-> "none"]

\* A handler that continues through the error whatever the page's setting.
OnCertificateError_Unconditional ==
    /\ certLast.n < MaxCertEvents
    /\ \E id \in EventIds :
         /\ certLast' = [n |-> certLast.n + 1, eventId |-> id, raised |-> "none"]
         /\ certCmds' = Append(certCmds, [eventId |-> id, action |-> "continue",
                                          reply |-> "pending"])
    /\ UNCHANGED <<cookieCall, cookieLog, ignoreHTTPSErrors, sample>>
    /\ UNCHANGED <<navVars, shotVars, bridgeVars, teardownVars>>

\* Security.certificateError arrives and _onCertificateError runs: when
\* the page ignores https errors it hands Security.handleCertificateError
\* to ensure_future and returns.
OnCertificateError ==
    /\ certLast.n < MaxCertEvents
    /\ \E id \in EventIds :
         /\ certLast' = [n |-> certLast.n + 1, eventId |-> id, raised |-> "none"]
         /\ certCmds' = IF ~ignoreHTTPSErrors THEN certCmds
                        ELSE Append(certCmds, [eventId |-> id, action |-> "continue",
                                               reply |-> "pending"])
    /\ UNCHANGED <<cookieCall, cookieLog, ignoreHTTPSErrors, sample>>
    /\ UNCHANGED <<navVars, shotVars, bridgeVars, teardownVars>>

\* The session answers a Security.handleCertificateError: the result or
\* the error stays in the task nobody awaits.
CertCmdReply ==
    /\ \E k \in 1..Len(certCmds), r \in {"ok", "failed"} :
         /\ certCmds[k].reply = "pending"
         /\ certCmds' = [certCmds EXCEPT ![k].reply = r]
    /\ UNCHANGED <<cookieCall, cookieLog, ignoreHTTPSErrors, certLast, sample>>
    /\ UNCHANGED <<navVars, shotVars, bridgeVars, teardownVars>>

\* The attributes of Page.Events.
EventNames ==
    {"Console", "Dialog", "Error", "PageError", "Request", "Response",
     "RequestFailed", "RequestFinished", "FrameAttached", "FrameDetached",
     "FrameNavigated", "Load"}

supportedMetrics ==
    {"Timestamp", "Documents", "Frames", "JSEventListeners", "Nodes",
     "LayoutCount", "RecalcStyleCount", "LayoutDuration",
     "RecalcStyleDuration", "ScriptDuration", "TaskDuration",
     "JSHeapUsedSize", "JSHeapTotalSize"}

\* The names and values of the raw metrics of a Performance.metrics event.
RawNames == {"Nodes", "Bogus"}

RawMetrics == [name : RawNames, value : {1, 2}]

RawLists == UNION {[1..n -> RawMetrics] : n \in 0..MaxMetrics}

\* The value of a name in the dict the loop builds: the last one written.
RECURSIVE LastValue(_, _)
LastValue(ms, nm) ==
    IF ms[Len(ms)].name = nm THEN ms[Len(ms)].value
    ELSE LastValue(SubSeq(ms, 1, Len(ms) - 1), nm)

\* _buildMetricsObject: the supported metrics of the list, by name.
BuildMetricsObject(ms) ==
    LET names == {ms[k].name : k \in 1..Len(ms)} \cap supportedMetrics
    IN  [nm \in names |-> LastValue(ms, nm)]

SampleIdle ==
    [n |-> 0, event |-> [title |-> "t", metrics |-> <<>>],
     raised |-> "none", emitted |-> <<>>]

\* Performance.metrics arrives and _emitMetrics runs: the arguments of emit
\* are evaluated first, and the event name is looked up in Page.Events.
EmitMetrics ==
    /\ sample.n < MaxSamples
    /\ \E ms \in RawLists :
         LET ev == [title |-> "t", metrics |-> ms]
             s == [sample EXCEPT !.n = sample.n + 1, !.event = ev]
         IN  sample' =
               IF "Metrics" \notin EventNames
               THEN [s EXCEPT !.raised = "AttributeError"]
               ELSE [s EXCEPT !.raised = "none",
                              !.emitted = Append(sample.emitted,
                                  [title |-> ev.title,
                                   metrics |-> BuildMetricsObject(ev.metrics)])]
    /\ UNCHANGED <<cookieCall, cookieLog, ignoreHTTPSErrors, certCmds, certLast>>
    /\ UNCHANGED <<navVars, shotVars, bridgeVars, teardownVars>>

-----------------------------------------------------------------------------
(***************************************************************************)
(* close, and the subscriptions Page.__init__ makes.                       *)
(***************************************************************************)
\* The subscriptions of Page.__init__: on the frame manager and the network
\* manager (each re-emits the event as a page event) and on the session
\* (Page.loadEventFired is re-emitted as load, the others run a handler).
Subscriptions ==
    [on : {"frameManager"},
     event : {"FrameAttached", "FrameDetached", "FrameNavigated"}]
    \cup [on : {"networkManager"},
          event : {"Request", "Response", "RequestFailed", "RequestFinished"}]
    \cup [on : {"session"},
          event : {"Page.loadEventFired", "Runtime.consoleAPICalled",
                   "Page.javascriptDialogOpening", "Runtime.exceptionThrown",
                   "Security.certificateError", "Inspector.targetCrashed",
                   "Performance.metrics"}]

CloseIdle == [pc |-> "open", returned |-> FALSE, raised |-> "none"]

\* close up to the await of the session's dispose.
CloseStart ==
    /\ closeCall.pc = "open"
    /\ closeCall' = [closeCall EXCEPT !.pc = "dispose"]
    /\ UNCHANGED <<subs, reemitted>>
    /\ UNCHANGED <<cookieCall, cookieLog, ignoreHTTPSErrors, certCmds, certLast, sample>>
    /\ UNCHANGED <<navVars, shotVars, bridgeVars>>

\* dispose is done, or has failed, and close returns or raises.
CloseResume ==
    /\ closeCall.pc = "dispose"
    /\ \E ok \in BOOLEAN :
         closeCall' = IF ok
                      THEN [closeCall EXCEPT !.pc = "closed", !.returned = TRUE]
                      ELSE [closeCall EXCEPT !.pc = "closed", !.raised = "ProtocolError"]
    /\ UNCHANGED <<subs, reemitted>>
    /\ UNCHANGED <<cookieCall, cookieLog, ignoreHTTPSErrors, certCmds, certLast, sample>>
    /\ UNCHANGED <<navVars, shotVars, bridgeVars>>

\* The session or a sub-component raises an event: the page's lambda runs
\* when its subscription is registered.
SourceEvent ==
    /\ Len(reemitted) < MaxEvents
    /\ \E sub \in Subscriptions :
         reemitted' = IF sub \in subs
                      THEN Append(reemitted, [sub |-> sub, closed |-> closeCall.pc = "closed"])
                      ELSE reemitted
    /\ UNCHANGED <<closeCall, subs>>
    /\ UNCHANGED <<cookieCall, cookieLog, ignoreHTTPSErrors, certCmds, certLast, sample>>
    /\ UNCHANGED <<navVars, shotVars, bridgeVars>>

-----------------------------------------------------------------------------
(***************************************************************************)
(* Initial states and specifications. Each specification exercises one     *)
(* part of the controller and leaves the other parts in their initial      *)
(* state.                                                                  *)
(***************************************************************************)
\* The screenshot part as Page.create leaves it.
QuietShot ==
    /\ viewport = "vA" /\ metrics = ViewportMetrics("vA")
    /\ background = "default" /\ shot = ShotIdle

\* The navigation part as Page.create leaves it, with a main frame.
QuietNav == frameUrl = "u1" /\ reqs = <<>> /\ nav = NavIdle /\ nav2 = NavIdle

\* The cookie operations and the event hub before any call and any event.
QuietCookie == cookieCall = CookieIdle /\ cookieLog = <<>>

QuietHub ==
    /\ ignoreHTTPSErrors = FALSE /\ certCmds = <<>> /\ certLast = CertIdle
    /\ sample = SampleIdle

\* The page as Page.__init__ leaves it: every subscription registered.
QuietTeardown ==
    closeCall = CloseIdle /\ subs = Subscriptions /\ reemitted = <<>>

QuietSurface == QuietCookie /\ QuietHub /\ QuietTeardown

\* The browser side of the bridge before any stub was called.
QuietRemote ==
    /\ expose = ExposeIdle /\ scripts = <<>> /\ ctx = 1
    /\ stub = [n \in Names |-> NoStub]
    /\ calls = <<>> /\ console = <<>> /\ made = 0
    /\ deliveries = <<>> /\ fulfilled = <<>>
    /\ last = LastNone

\* The bridge as Page.__init__ leaves it.
QuietBridge ==
    /\ pageBindings = [n \in Names |-> NoBinding]
    /\ listeners = 0
    /\ QuietRemote

InitNav ==
    /\ frameUrl \in Urls \cup {NoFrame}
    /\ reqs = <<>>
    /\ nav = NavIdle /\ nav2 = NavIdle
    /\ QuietShot /\ QuietBridge /\ QuietSurface

\* Page.create sets the viewport unless the page is made with appMode.
InitShot ==
    /\ \/ viewport = "vA" /\ metrics = ViewportMetrics("vA")
       \/ viewport = Unset /\ metrics = DefaultMetrics
    /\ background = "default"
    /\ shot = ShotIdle
    /\ QuietNav /\ QuietBridge /\ QuietSurface

InitBridge == QuietBridge /\ QuietNav /\ QuietShot /\ QuietSurface

\* A page on which exposeFunction has or has not been called for the name
\* "a", before page script makes its console calls.
InitConsole ==
    /\ \E c \in Callables \cup {NoBinding} :
         pageBindings = [n \in Names |-> IF n = "a" THEN c ELSE NoBinding]
    /\ listeners = 0
    /\ QuietRemote /\ QuietNav /\ QuietShot /\ QuietSurface

\* Two calls on a page with a main frame.
InitTwoCalls == QuietNav /\ QuietShot /\ QuietBridge /\ QuietSurface

\* A page with any main frame url, or none, before setCookie is called.
InitCookie ==
    /\ frameUrl \in PageUrls \cup {NoFrame}
    /\ reqs = <<>> /\ nav = NavIdle /\ nav2 = NavIdle
    /\ QuietCookie /\ QuietHub /\ QuietTeardown /\ QuietShot /\ QuietBridge

\* A page created with or without ignoreHTTPSErrors.
InitHub ==
    /\ ignoreHTTPSErrors \in BOOLEAN
    /\ certCmds = <<>> /\ certLast = CertIdle /\ sample = SampleIdle
    /\ QuietCookie /\ QuietTeardown /\ QuietNav /\ QuietShot /\ QuietBridge

NextNav ==
    \/ GotoStart \/ NavigateReply \/ GotoAfterNavigate
    \/ WatcherComplete \/ GotoAfterWatcher
    \/ WfnStart \/ WfnBegin \/ WfnAfterWatcher
    \/ ReloadStart \/ GatherCmdIssue \/ GatherCmdReply \/ GatherResume
    \/ GoStart \/ HistoryReply \/ GoAfterHistory
    \/ RequestStarted \/ ResponseReceived \/ FrameNavigated

NextShot ==
    \/ SetViewport \/ ScreenshotStart \/ ShotActivate \/ ShotOverride
    \/ ShotSetBackground \/ ShotCapture \/ ShotResetBackground
    \/ ShotRestore \/ ShotFinish

NextBridge ==
    \/ ExposeStart \/ ExposeAddScriptReply \/ ExposeEvaluate
    \/ NewDocument \/ StubCall \/ OnConsoleAPI \/ Deliver

NextConsole ==
    \/ ConsoleCall \/ AddListener \/ RemoveListener \/ OnConsoleAPI \/ Deliver

\* The first call is a goto or a waitForNavigation, and so is the second;
\* the network's events are those that fall once both calls have been made
\* and while one of them is pending.
NextTwoCalls ==
    \/ GotoStart \/ NavigateReply \/ GotoAfterNavigate
    \/ WatcherComplete \/ GotoAfterWatcher
    \/ WfnStart \/ WfnAfterWatcher
    \/ Goto2Start \/ Navigate2Reply \/ Goto2AfterNavigate
    \/ Watcher2Complete \/ Goto2AfterWatcher
    \/ Wfn2Start \/ Wfn2AfterWatcher
    \/ (SecondCalled /\ SomePending /\ RequestStarted)
    \/ (SecondCalled /\ SomePending /\ ResponseReceived)
    \/ (SomePending /\ FrameNavigated)

NextCookie ==
    \/ SetCookieStart \/ CookieCmdReply \/ DeleteCookieResume
    \/ SetCookieResume \/ CookieFrameNavigated

NextHub == OnCertificateError \/ CertCmdReply \/ EmitMetrics

InitClose == QuietNav /\ QuietShot /\ QuietBridge /\ QuietSurface

NextClose == CloseStart \/ CloseResume \/ SourceEvent

SpecNav == InitNav /\ [][NextNav]_vars

SpecTwoCalls == InitTwoCalls /\ [][NextTwoCalls]_vars

SpecCookie == InitCookie /\ [][NextCookie]_vars

SpecHub == InitHub /\ [][NextHub]_vars

SpecClose == InitClose /\ [][NextClose]_vars

SpecShot == InitShot /\ [][NextShot]_vars

SpecBridge == InitBridge /\ [][NextBridge]_vars

SpecConsole == InitConsole /\ [][NextConsole]_vars

\* A step of the navigation call itself: a coroutine that is ready runs, or
\* the session answers a command it was sent.
NavProgress ==
    \/ GotoAfterNavigate \/ GotoAfterWatcher
    \/ WfnBegin \/ WfnAfterWatcher
    \/ GatherCmdIssue \/ GatherResume \/ GoAfterHistory
    \/ NavigateReply \/ GatherCmdReply \/ HistoryReply

\* The event loop runs the tasks that are ready, and the session answers the
\* commands it was sent; nothing forces the watcher to complete or the
\* browser to raise an event.
FairNav == WF_vars(NavProgress)

\* The navigation operations on a page that starts few requests.
NextNavFair ==
    \/ GotoStart \/ NavigateReply \/ GotoAfterNavigate
    \/ WatcherComplete \/ GotoAfterWatcher
    \/ WfnStart \/ WfnBegin \/ WfnAfterWatcher
    \/ ReloadStart \/ GatherCmdIssue \/ GatherCmdReply \/ GatherResume
    \/ GoStart \/ HistoryReply \/ GoAfterHistory
    \/ (Len(reqs) < MaxFairReq /\ RequestStarted)
    \/ ResponseReceived \/ FrameNavigated

SpecNavFair == InitNav /\ [][NextNavFair]_vars /\ FairNav

-----------------------------------------------------------------------------
(***************************************************************************)
(* Properties of the navigation operations.                                *)
(***************************************************************************)
NavSettled == nav.pc = "done"

\* The watcher has completed, or a command of the call has reported an error.
NavDecided ==
    \/ nav.watcher \in {"ok", "error"}
    \/ nav.cmd \in {"failed", "errorText"}

GoDecided ==
    /\ nav.op \in {"goBack", "goForward"}
    /\ nav.pc \notin {"idle", "history"}
    /\ ~(nav.cmdName = "Page.getNavigationHistory" /\ nav.cmd = "failed")

\* currentIndex + offset is no index of the history's entries.
GoOutOfBounds ==
    \/ nav.hist.cur + nav.delta < 0
    \/ nav.hist.cur + nav.delta >= nav.hist.n

NavigateToHistoryIssued ==
    \/ nav.cmdName = "Page.navigateToHistoryEntry"
    \/ \E i \in 1..Len(nav.sent) : nav.sent[i] = "Page.navigateToHistoryEntry"

\* C2: when currentIndex + offset is outside the history bounds, goBack and
\* goForward return no response, raise nothing and never hand a
\* Page.navigateToHistoryEntry command to the session.
C2_OutOfBoundsIsNoOp ==
    (GoDecided /\ GoOutOfBounds) =>
        /\ NavSettled /\ nav.returned /\ nav.retVal = 0 /\ nav.raised = "none"
        /\ ~NavigateToHistoryIssued

\* C9: in goto, once Page.navigate has reported an error (an error text or a
\* protocol error), goto is either still to resume or has raised that very
\* error; it is never waiting for the watcher and never returns.
C9_NavigateErrorShortCircuits ==
    (nav.op = "goto" /\ nav.cmd \in {"errorText", "failed"}) =>
        /\ nav.pc \in {"navigate", "done"}
        /\ ~nav.returned
        /\ NavSettled =>
             nav.raised = IF nav.cmd = "errorText"
                          THEN "NavigateErrorText" ELSE "ProtocolError"

\* goto has raised the error text while the watcher had not completed.
C9_Witness ==
    /\ nav.op = "goto" /\ NavSettled
    /\ nav.raised = "NavigateErrorText" /\ nav.watcher = "pending"

\* The most recent request for url u among those started since the call was
\* armed (0 when there is none).
LastObserved(u) ==
    LET S == {r \in (nav.armedAt + 1)..Len(reqs) : reqs[r].url = u}
    IN  IF S = {} THEN 0 ELSE CHOOSE r \in S : \A q \in S : q <= r

\* The outcome the claim gives goto for the watcher's result.
GotoOutcomeOfWatcher ==
    IF nav.watcher = "ok"
    THEN /\ nav'.returned /\ nav'.raised = "none"
         /\ nav'.retVal = ResponseOf(LastObserved(frameUrl))
    ELSE /\ ~nav'.returned /\ nav'.raised = "NavigationError"

-----------------------------------------------------------------------------
(***************************************************************************)
(* Properties of the screenshot.                                           *)
(***************************************************************************)
ShotSettled == shot.pc = "done"

\* C3: after a full-page screenshot has returned or raised, the browser
\* emulates the device metrics it emulated before the call: the full-page
\* override is not left in place, whether the capture succeeded or failed.
C3_ViewportRestored ==
    (ShotSettled /\ shot.opt.fullPage) => metrics = shot.pre

-----------------------------------------------------------------------------
(***************************************************************************)
(* Properties of exposeFunction and of the bridge.                         *)
(***************************************************************************)
\* This step is a call of exposeFunction (expose'.name is its name).
ExposeCalled == expose.pc \in {"idle", "done"} /\ expose' # expose

\* C4: a call of exposeFunction with a name that is already bound raises
\* PageError at once and changes neither the bindings, nor the scripts
\* registered for new documents, nor any stub; and no step ever changes the
\* callable a bound name is mapped to.
C4_DuplicateNameRejected ==
    [][/\ (ExposeCalled /\ pageBindings[expose'.name] # NoBinding) =>
            /\ expose'.pc = "done" /\ expose'.raised = "PageError"
            /\ ~expose'.returned
            /\ UNCHANGED <<pageBindings, scripts, stub>>
       /\ \A n \in Names :
            pageBindings[n] # NoBinding => pageBindings'[n] = pageBindings[n]
      ]_vars

\* A second registration of a name, with another callable, was rejected.
C4_Witness ==
    /\ expose.pc = "done" /\ expose.raised = "PageError"
    /\ pageBindings[expose.name] \notin {NoBinding, expose.fn}

\* Later calls of a name's stub in one context get greater sequence numbers.
SeqNeverReused ==
    \A i, j \in 1..Len(calls) :
        (i < j /\ calls[i].name = calls[j].name /\ calls[i].ctx = calls[j].ctx)
            => calls[i].seq < calls[j].seq

\* Every fulfilled completion is the one recorded by the call whose
\* invocation record was answered, and none is fulfilled twice.
FulfilledOwnCompletion ==
    /\ \A k \in 1..Len(fulfilled) :
         LET f == fulfilled[k]
         IN  /\ f.by \in 1..Len(calls)
             /\ calls[f.by].name = f.name /\ calls[f.by].ctx = f.ctx
             /\ calls[f.by].inst = f.inst /\ calls[f.by].seq = f.seq
    /\ \A k, m \in 1..Len(fulfilled) :
         (k # m) => [fulfilled[k] EXCEPT !.result = 0, !.by = 0]
                      # [fulfilled[m] EXCEPT !.result = 0, !.by = 0]

\* C5: in one context the sequence numbers of a binding's calls are strictly
\* increasing, each call records its pending completion, a delivery fulfils
\* the completion of the call it answers, once, and removes it, and a
\* delivery without a pending completion changes nothing in the page.
C5_SequencedDelivery ==
    /\ [](SeqNeverReused /\ FulfilledOwnCompletion)
    /\ [][/\ (Len(calls') > Len(calls)) =>
               LET c == calls'[Len(calls')]
               IN  c.seq \in stub'[c.name].callbacks
          /\ (deliveries # <<>> /\ deliveries' = Tail(deliveries)) =>
               IF Deliverable(Head(deliveries))
               THEN /\ Len(fulfilled') = Len(fulfilled) + 1
                    /\ Head(deliveries).seq \notin stub'[Head(deliveries).name].callbacks
               ELSE UNCHANGED <<stub, fulfilled>>
         ]_vars

\* The last event handled was the invocation record of a registered binding.
LastIsInvocation ==
    /\ last.handled /\ last.type = "debug" /\ Len(last.args) = 2
    /\ last.args[1] = Str(Sentinel) /\ last.args[2].kind = "json"
    /\ pageBindings[last.args[2].name] # NoBinding

\* The result the claim has delivered for a callable: its return value, or
\* the error it raised.
OutcomeOf(fn, args) ==
    IF Throws(fn) THEN [fn |-> fn, args |-> <<"raised">>] ELSE ResultOf(fn, args)

\* C6: for every invocation record of a registered binding the handler
\* invokes the callable once with the record's arguments and dispatches
\* exactly one delivery, for the record's name and sequence number, whose
\* result is the callable's return value or the error it raised.
C6_OneDeliveryPerInvocation ==
    LastIsInvocation =>
        LET rec == last.args[2]
            fn == pageBindings[rec.name]
        IN  /\ last.invoked = <<[fn |-> fn, args |-> rec.args]>>
            /\ Len(last.delivered) = 1
            /\ last.delivered[1].name = rec.name
            /\ last.delivered[1].seq = rec.seq
            /\ last.delivered[1].result = OutcomeOf(fn, rec.args)

\* A console call is a binding record: debug level, first argument the
\* sentinel string.
IsBindingRecord(type, args) ==
    /\ type = "debug" /\ Len(args) >= 1
    /\ args[1].kind # "obj" /\ args[1].value = Sentinel

\* C7: a console event that is no binding record, handled while no listener
\* is subscribed, has one release dispatched for every argument, in order,
\* emits no console event and raises nothing.
C7_ReleasedWithoutListener ==
    (last.handled /\ ~IsBindingRecord(last.type, last.args) /\ last.listeners = 0) =>
        /\ last.raised = "none"
        /\ last.released = last.args
        /\ last.emitted = <<>>

\* C8: a console event that is no binding record, handled while a listener
\* is subscribed, emits exactly one console event, whose payload is the
\* materialized values of the arguments in the order of the call.
C8_EmittedInOrder ==
    (last.handled /\ ~IsBindingRecord(last.type, last.args) /\ last.listeners >= 1) =>
        /\ last.raised = "none"
        /\ last.released = <<>>
        /\ last.emitted = << [i \in 1..Len(last.args) |-> ValueOf(last.args[i])] >>

-----------------------------------------------------------------------------
(***************************************************************************)
(* Further properties of the navigation operations.                        *)
(***************************************************************************)
\* C11: a reload that has returned has had its Page.reload command answered
\* without error and its watcher completed without error, and its
\* waitForNavigation has returned: neither alone settles a successful
\* reload.
C11_ReloadNeedsBoth ==
    (nav.op = "reload" /\ nav.returned) =>
        /\ nav.cmd = "ok"
        /\ nav.watcher = "ok"
        /\ nav.wfn = "returned"

C11_Witness == nav.op = "reload" /\ nav.returned /\ nav.retVal # 0

-----------------------------------------------------------------------------
(***************************************************************************)
(* Properties of the cookie operations.                                    *)
(***************************************************************************)
\* C12: when Network.setCookies has been sent it is the last command of the
\* call, and the commands before it are one answered Network.deleteCookies
\* for each cookie it sets, in order, with that cookie's name and url.
C12_DeletesBeforeSet ==
    \A k \in 1..Len(cookieLog) :
        cookieLog[k].method = "Network.setCookies" =>
            LET items == cookieLog[k].params
            IN  /\ k = Len(cookieLog)
                /\ k = Len(items) + 1
                /\ \A j \in 1..(k - 1) :
                     /\ cookieLog[j].method = "Network.deleteCookies"
                     /\ cookieLog[j].answered
                     /\ cookieLog[j].params = <<items[j]>>

-----------------------------------------------------------------------------
(***************************************************************************)
(* Properties of the event hub.                                            *)
(***************************************************************************)
\* A run of _onCertificateError is a step that counts one more event.
CertHandled == certLast'.n = certLast.n + 1

\* C13: a run of _onCertificateError on a page that ignores https errors
\* dispatches exactly one continue command with the event's id and returns
\* while its reply is pending; on a page that does not, it dispatches
\* nothing. The handler never raises, and the reply of a command, failure
\* or not, changes nothing of what the handler did.
C13_ContinueOnCertificateError ==
    /\ [][CertHandled =>
            IF ignoreHTTPSErrors
            THEN certCmds' = Append(certCmds, [eventId |-> certLast'.eventId,
                                               action |-> "continue",
                                               reply |-> "pending"])
            ELSE certCmds' = certCmds]_vars
    /\ [][~CertHandled => /\ certLast' = certLast
                          /\ Len(certCmds') = Len(certCmds)]_vars
    /\ [](certLast.raised = "none")
    /\ [](~ignoreHTTPSErrors => certCmds = <<>>)

C13_Witness ==
    /\ ignoreHTTPSErrors
    /\ certLast.n = 2
    /\ Len(certCmds) = 2
    /\ certCmds[1].reply = "failed"
    /\ certCmds[2].reply = "pending"
    /\ certCmds[2].eventId = certLast.eventId

-----------------------------------------------------------------------------
(***************************************************************************)
(* Further properties of screenshot.                                       *)
(***************************************************************************)
\* The encoding the precedence gives: the type option, else the encoding of
\* the path's extension, else png; "error" when no type is given and the
\* path's extension is not a supported one.
EncodingByPrecedence(opt) ==
    IF opt.type # "absent" THEN opt.type
    ELSE CASE opt.path = "absent" -> "png"
           [] opt.path = "image/png" -> "png"
           [] opt.path = "image/jpeg" -> "jpeg"
           [] OTHER -> "error"

\* C14: a screenshot call that got past the choice of the encoding uses the
\* encoding the precedence gives, and a call fails on the path's extension
\* only when the precedence gives none; a call with a type option never
\* does.
C14_TypePrecedence ==
    shot.pc # "idle" =>
        IF EncodingByPrecedence(shot.opt) = "error"
        THEN shot.raised = "UnsupportedMimeType"
        ELSE /\ shot.raised # "UnsupportedMimeType"
             /\ shot.format = EncodingByPrecedence(shot.opt)

\* C15: after a run of _emitMetrics the handler has not raised and the
\* last metrics event emitted carries the title of the performance sample
\* and the mapping of its supported raw metrics, one event per sample.
C15_MetricsSampleEmitted ==
    sample.n > 0 =>
        /\ sample.raised = "none"
        /\ Len(sample.emitted) = sample.n
        /\ sample.emitted[sample.n] =
             [title |-> sample.event.title,
              metrics |-> BuildMetricsObject(sample.event.metrics)]

-----------------------------------------------------------------------------
(***************************************************************************)
(* Listeners, watcher and command of a navigation call.                    *)
(***************************************************************************)
\* C16: a navigation call that has returned or raised has no listener of
\* its own subscribed to the network manager any more.
C16_NoListenerAfterSettlement ==
    NavSettled => ~nav.reqL /\ ~nav.respL

\* The call has settled with the outcome of its completed watcher: goto got
\* past Page.navigate, waitForNavigation (called directly or gathered)
\* resumed with the watcher's result and that result settled the call.
SettledByWatcher ==
    /\ NavSettled
    /\ nav.watcher \in {"ok", "error"}
    /\ CASE nav.op = "goto" -> nav.raised \notin {"ProtocolError", "NavigateErrorText"}
         [] nav.op = "waitForNavigation" -> TRUE
         [] OTHER -> /\ nav.wfn \in {"returned", "raised"}
                     /\ nav.gather \in {"result", "exc_wfn"}

\* C17: a call that has settled with the outcome of its completed watcher
\* has removed its listeners and cancelled the watcher.
C17_UnsubscribedAndCancelled ==
    SettledByWatcher => /\ ~nav.reqL /\ ~nav.respL
                        /\ nav.cancelled

\* C18: while goto has not settled, a completed watcher can be acted on at
\* once: the step of goto that takes the watcher's result is enabled
\* whether or not Page.navigate has been answered.
C18_WatcherRacesNavigate ==
    (nav.op = "goto" /\ ~NavSettled /\ nav.watcher \in {"ok", "error"}) =>
        ENABLED GotoAfterWatcher

NavigationCommands ==
    {"Page.navigate", "Page.reload", "Page.navigateToHistoryEntry"}

\* This step hands a navigation command of the call to the session.
CommandIssued ==
    /\ Len(nav'.sent) = Len(nav.sent) + 1
    /\ nav'.sent[Len(nav'.sent)] \in NavigationCommands

\* C19: when a navigation command of the call goes out to the session, the
\* call has a network listener subscribed and its watcher exists.
C19_ArmedBeforeCommand ==
    [][CommandIssued => /\ nav'.reqL \/ nav'.respL
                        /\ nav'.watcher # "none"]_vars

-----------------------------------------------------------------------------
(***************************************************************************)
(* Two navigation calls pending at the same time.                          *)
(***************************************************************************)
\* What a call keeps for itself: its maps, its subscriptions, its watcher
\* and its outcome.
OwnState(s) ==
    <<s.requests, s.responses, s.reqL, s.respL, s.watcher, s.cancelled,
      s.pc, s.returned, s.retVal, s.raised>>

\* Both calls have been made and neither has settled.
BothPending ==
    /\ nav.op # "none" /\ nav.pc # "done"
    /\ nav2.op # "none" /\ nav2.pc # "done"

\* The network manager reports a request or a response in this step.
NetworkEvent == reqs' # reqs

\* The request or the response this step reports, and its url.
EventRequest ==
    IF Len(reqs') > Len(reqs) THEN Len(reqs')
    ELSE CHOOSE r \in 1..Len(reqs) : reqs'[r] # reqs[r]

\* What the listeners of a call make of the event of this step.
Recorded(s) ==
    IF Len(reqs') > Len(reqs)
    THEN IF s.reqL THEN SetItem(s.requests, reqs'[EventRequest].url, EventRequest)
         ELSE s.requests
    ELSE IF s.respL THEN SetItem(s.responses, reqs'[EventRequest].url, EventRequest)
         ELSE s.responses

\* C20: while two calls are pending, an event of the network manager is
\* recorded in the map of each call whose listener is subscribed and changes
\* nothing else of either call; a step of one call, its settlement
\* included, changes nothing of what the other call keeps for itself; and
\* the value a call returns is the response found in its own map.
C20_IndependentCalls ==
    /\ [][(BothPending /\ NetworkEvent) =>
            /\ (IF Len(reqs') > Len(reqs) THEN nav'.requests ELSE nav'.responses)
                   = Recorded(nav)
            /\ (IF Len(reqs') > Len(reqs) THEN nav2'.requests ELSE nav2'.responses)
                   = Recorded(nav2)
            /\ nav'.reqL = nav.reqL /\ nav'.respL = nav.respL
            /\ nav2'.reqL = nav2.reqL /\ nav2'.respL = nav2.respL
            /\ nav'.pc = nav.pc /\ nav2'.pc = nav2.pc]_vars
    /\ [][(BothPending /\ ~NetworkEvent) =>
            \/ OwnState(nav') = OwnState(nav)
            \/ OwnState(nav2') = OwnState(nav2)]_vars
    /\ [][(nav2.op # "none" /\ nav.pc # "done" /\ nav'.pc = "done") =>
            OwnState(nav2') = OwnState(nav2)]_vars
    /\ [][(nav2.op # "none" /\ nav2.pc # "done" /\ nav2'.pc = "done") =>
            OwnState(nav') = OwnState(nav)]_vars
    /\ [](nav.returned /\ nav.op = "goto" /\ nav.retVal # 0 =>
            nav.requests[reqs[nav.retVal].url] = nav.retVal)
    /\ [](nav2.returned /\ nav2.op = "goto" /\ nav2.retVal # 0 =>
            nav2.requests[reqs[nav2.retVal].url] = nav2.retVal)

\* Both calls recorded an event while both were pending, one has settled
\* and removed its listener, and the other is still subscribed.
C20_Witness ==
    /\ nav.op = "goto" /\ nav2.op = "goto"
    /\ nav2.pc = "done" /\ nav2.returned /\ ~nav2.reqL
    /\ nav.pc # "done" /\ nav.reqL
    /\ \E u \in Urls : nav.requests[u] # 0 /\ nav.requests[u] = nav2.requests[u]

-----------------------------------------------------------------------------
(***************************************************************************)
(* Further properties of the bridge and of the console handler.            *)
(***************************************************************************)
\* C21: a binding record is handled by the bridge, whatever the number of
\* console listeners: the handler invokes a callable or fails on the
\* record, emits no console event and releases no argument.
C21_RecordNeverPublic ==
    (last.handled /\ IsBindingRecord(last.type, last.args)) =>
        /\ last.emitted = <<>>
        /\ last.released = <<>>
        /\ Len(last.invoked) = 1 \/ last.raised # "none"

\* A record of a registered binding was handled while a listener was
\* subscribed, and its delivery was dispatched.
C21_Witness ==
    /\ last.handled /\ IsBindingRecord(last.type, last.args)
    /\ last.listeners >= 1
    /\ Len(last.delivered) = 1 /\ last.raised = "none"

\* The delivery d answers the stub call it names: it has that call's
\* context, binding name and sequence number.
AnswersItsCall(d) ==
    /\ d.by \in 1..Len(calls)
    /\ d.ctx = calls[d.by].ctx
    /\ d.name = calls[d.by].name
    /\ d.seq = calls[d.by].seq

\* C22: the delivery the handler dispatches for an invocation record carries
\* the context id of the event that carried the record and the record's
\* name and sequence number, and every delivery on its way answers the stub
\* call that made its record.
C22_DeliveryTargetsOrigin ==
    /\ [](\A k \in 1..Len(deliveries) : AnswersItsCall(deliveries[k]))
    /\ [][(console # <<>> /\ console' = Tail(console)) =>
            \A k \in 1..Len(last'.delivered) :
                /\ last'.delivered[k].ctx = Head(console).ctx
                /\ last'.delivered[k].name = Head(console).args[2].name
                /\ last'.delivered[k].seq = Head(console).args[2].seq]_vars

\* Deliveries for two contexts are on their way, the first for a context
\* the frame has left.
C22_Witness ==
    /\ Len(deliveries) = 2
    /\ deliveries[1].ctx # ctx
    /\ deliveries[2].ctx = ctx

\* This step is a run of _onConsoleAPI, on the oldest event not yet handled.
ConsoleHandled == console # <<>> /\ console' = Tail(console)

\* C23: the handler takes the invocation records in the order the stubs
\* emitted them, invokes the callable of each and appends its delivery
\* behind the deliveries dispatched before, and it returns with that
\* delivery still on its way; so the deliveries on their way are in the
\* order of emission and all older than the records not yet handled.
C23_BurstInOrder ==
    /\ [](\A i, j \in 1..Len(console) :
            i < j => console[i].call < console[j].call)
    /\ [](\A i, j \in 1..Len(deliveries) :
            i < j => deliveries[i].by < deliveries[j].by)
    /\ [](\A i \in 1..Len(deliveries), k \in 1..Len(console) :
            deliveries[i].by < console[k].call)
    /\ [][ConsoleHandled =>
            /\ last'.handled /\ last'.args = Head(console).args
            /\ deliveries' = deliveries \o last'.delivered
            /\ \A k \in 1..Len(last'.delivered) :
                 /\ last'.delivered[k].by = Head(console).call
                 /\ last'.invoked =
                      <<[fn |-> pageBindings[Head(console).args[2].name],
                         args |-> Head(console).args[2].args]>>]_vars

\* The second record of a burst was handled, and its delivery dispatched,
\* while the delivery of the first was still on its way.
C23_Witness ==
    /\ Len(deliveries) = 2
    /\ last.handled /\ last.delivered = <<deliveries[2]>>
    /\ deliveries[1].ctx = deliveries[2].ctx
    /\ deliveries[1].name = deliveries[2].name

\* The event is a well-formed invocation record of a name that has no
\* binding in the map m.
UnboundRecord(ev, m) ==
    /\ IsBindingRecord(ev.type, ev.args)
    /\ Len(ev.args) >= 2 /\ ev.args[2].kind = "json"
    /\ m[ev.args[2].name] = NoBinding

\* C24: the handler raises on an invocation record whose name has no
\* binding: it invokes no callable, dispatches no delivery and no release,
\* emits no console event and leaves the bindings as they were.
C24_MissingBindingFails ==
    [][(ConsoleHandled /\ UnboundRecord(Head(console), pageBindings)) =>
          /\ last'.handled /\ last'.raised = "KeyError"
          /\ last'.invoked = <<>> /\ last'.delivered = <<>>
          /\ last'.released = <<>> /\ last'.emitted = <<>>
          /\ UNCHANGED <<pageBindings, deliveries>>]_vars

\* A record of a name that has no binding was handled while a
\* listener was subscribed.
C24_Witness ==
    /\ last.handled /\ last.raised = "KeyError"
    /\ UnboundRecord([type |-> last.type, args |-> last.args], pageBindings)
    /\ last.listeners >= 1

-----------------------------------------------------------------------------
(***************************************************************************)
(* Properties of close.                                                    *)
(***************************************************************************)
\* C25: once close has returned no subscription of the page is registered,
\* and no event raised after close was handled by the page.
C25_NoSubscriptionAfterClose ==
    /\ (closeCall.pc = "closed" /\ closeCall.returned) => subs = {}
    /\ \A k \in 1..Len(reemitted) : ~reemitted[k].closed

-----------------------------------------------------------------------------
(***************************************************************************)
(* Invariant of the bridge, and failure of exposeFunction.                 *)
(***************************************************************************)
\* The bootstrap of the name is installed in the current document or
\* registered for the documents to come.
Installed(n) == stub[n].inst # 0 \/ InSeq(n, scripts)

\* C26: a name whose stub is installed in the current document or is
\* registered for new documents has a callable in the bindings, a binding
\* is never removed, and the handler never misses the callable of a record
\* a stub has made.
C26_InstalledImpliesBound ==
    /\ [](\A n \in Names : Installed(n) => pageBindings[n] # NoBinding)
    /\ [](\A k \in 1..Len(console) :
            console[k].call # 0 => pageBindings[console[k].args[2].name] # NoBinding)
    /\ [][\A n \in Names :
            pageBindings[n] # NoBinding => pageBindings'[n] # NoBinding]_vars
    /\ [](last.handled => /\ Len(last.invoked) = 1
                           /\ last.raised # "KeyError")

\* A stub installed by a new document was called, and the handler found its
\* callable.
C26_Witness ==
    /\ \E n \in Names : stub[n].inst # 0 /\ InSeq(n, scripts)
    /\ ctx > 1
    /\ last.handled /\ Len(last.invoked) = 1

\* C27: an exposeFunction call that raises leaves the registered bindings
\* as they were before the call: the duplicate-name error changes nothing,
\* and after any other failure the name of the call is unbound, as it was
\* when the call was made, so that a later call can register it.
C27_FailedExposeUndone ==
    /\ [][(expose'.raised = "PageError" /\ expose' # expose) =>
             pageBindings' = pageBindings]_vars
    /\ []((expose.pc = "done" /\ expose.raised \notin {"none", "PageError"}) =>
             pageBindings[expose.name] = NoBinding)
\* C28: every console event that is no binding record is handled without
\* raising, whatever its level and its arguments: none, an object without
\* a primitive value first, a single one; and the handler has then either
\* released every argument or emitted one console event.
C28_PlainConsoleNeverRaises ==
    (last.handled /\ ~IsBindingRecord(last.type, last.args)) =>
        /\ last.raised = "none"
        /\ \/ last.released = last.args /\ last.emitted = <<>>
           \/ last.released = <<>> /\ Len(last.emitted) = 1

====
